---------------------------- MODULE Spec2Model ----------------------------
(***************************************************************************)
(* A model of the blog application of src/main.py: the three tables        *)
(* (Users, blog_posts, comments), the login session of each browser, and   *)
(* one action per route.  Every action records the request it served in    *)
(* req and the answer it gave in resp.                                     *)
(*                                                                         *)
(* Spec serves the requests of one browser one after the other.  SpecRace  *)
(* serves the register requests of two browsers at once, as a threaded     *)
(* server does: the lookup of the e-mail and the insert of the row are     *)
(* separate steps there, and another request may come between them.        *)
(***************************************************************************)
EXTENDS Integers, Sequences, FiniteSets, TLC

(* ----------------------------- bounds -------------------------------- *)
MaxPosts    == 1                       \* posts the model lets the admin create
MaxComments == 1                       \* comments the model lets users add

Clients   == {"b1", "b2"}              \* browsers, each with its own session cookie
Emails    == {"a@x.com", "b@x.com"}
Passwords == {<<112, 119, 49>>, <<112, 119, 50>>}   \* "pw1", "pw2" as character codes
Salts     == {11, 12}                  \* the salts gen_salt may draw
Titles    == {"t1", "t2"}
PostIds   == {1, 2}                    \* values of <int:post_id> in a URL

(* --------------------------- vocabulary ------------------------------ *)
None    == 0                           \* Python None: no row, no user id in the session
AdminId == 1                           \* the id admin_only compares with
Method  == 256                         \* 'pbkdf2:sha256'

ErrAlreadySignedUp == "You have already signed up with that email, log in instead!"
ErrNoSuchEmail     == "the Email you entered doesn't exist, please try again!"
ErrPassword        == "Password Incorrect, Please try again!"
ErrNeedLogin       == "You need to logged first in in order to be able to add comments!"

AdminRoutes == {"add_new_post", "edit_post", "delete_post"}

VARIABLES
    users,         \* rows of table Users
    posts,         \* rows of table blog_posts
    comments,      \* rows of table comments
    session,       \* session[c]: the user id flask_login keeps in browser c's session, or None
    inflight,      \* inflight[c]: the register form whose lookup is done and insert is not, in a tuple
    foreign_keys,  \* whether the store behind DATABASE_URL enforces the ForeignKey columns
    typed,         \* history: typed[e] is the password typed when e was registered, or <<>>
    req,           \* the request served by the last step
    resp           \* the response to it

vars == <<users, posts, comments, session, inflight, foreign_keys, typed, req, resp>>

(* ------------------------- werkzeug.security -------------------------- *)
RECURSIVE Fold(_, _)
\* the key derivation: every character of the password is mixed into a value
\* that starts from the salt
Fold(h, s) == IF s = <<>> THEN h ELSE Fold((h * 31 + Head(s)) % 65521, Tail(s))

Digest(salt, password) == Fold(salt, password)

\* "method$salt$hash", with a salt drawn by the caller
generate_password_hash(password, salt) == <<Method, salt, Digest(salt, password)>>

\* variant: the hash is split but never compared
check_password_hash_unchecked(pwhash, password) == Len(pwhash) = 3

\* splits pwhash into method, salt and hash, and compares the hash with the
\* digest of the candidate under that salt
check_password_hash(pwhash, password) ==
    /\ Len(pwhash) = 3
    /\ Digest(pwhash[2], password) = pwhash[3]

(* ------------------------------ tables -------------------------------- *)
User(id, email, password, name) ==
    [id |-> id, email |-> email, password |-> password, name |-> name]

BlogPost(id, author_id, title) ==
    [id |-> id, author_id |-> author_id, title |-> title]

Comment(id, author_id, text, post_id) ==
    [id |-> id, author_id |-> author_id, text |-> text, post_id |-> post_id]

Ids(table) == {r.id : r \in table}

Row(table, id) == CHOOSE r \in table : r.id = id

\* an Integer primary key: one more than the largest id in the table
NextId(table) == IF table = {} THEN 1
                 ELSE (CHOOSE i \in Ids(table) : \A j \in Ids(table) : j <= i) + 1

\* User.query.filter_by(email=email).first(): the id of the row, or None
UserByEmail(email) ==
    IF \E u \in users : u.email = email
    THEN (CHOOSE u \in users : u.email = email).id
    ELSE None

\* BlogPost.query.get(post_id): the id of the row, or None
PostById(post_id) == IF post_id \in Ids(posts) THEN post_id ELSE None

(* ----------------------------- flask_login ---------------------------- *)
\* load_user: the id of the user row the session's id names, or None
load_user(user_id) == IF user_id \in Ids(users) THEN user_id ELSE None

\* current_user of browser c: a user id, or None for the AnonymousUserMixin
current_user(c) == IF session[c] = None THEN None ELSE load_user(session[c])

\* variant: the anonymous user counts as active
is_active_always(user) == TRUE

is_active(user) == user # None

is_authenticated(user) == user # None

\* login_user(user): the user's id goes into the session of browser c
login_user(c, user) == [session EXCEPT ![c] = user]

\* variant: the id stays in the session
logout_user_keeps(c) == session

\* logout_user(): the id leaves the session
logout_user(c) == [session EXCEPT ![c] = None]

(* ------------------------- requests, responses ------------------------ *)
Request(c, route, method) ==
    [client |-> c, route |-> route, method |-> method,
     email |-> "", password |-> <<>>, post_id |-> None, valid |-> FALSE]

Response(status, page, error) ==
    [status |-> status, page |-> page, error |-> error, checks |-> <<>>, listing |-> {}]

render_template(page, error) == Response(200, page, error)

redirect(endpoint, error) == Response(302, endpoint, error)

abort(status) == Response(status, "", "")

\* an exception nothing catches: Flask answers 500
InternalServerError == Response(500, "", "")

\* the handler has not answered yet
NoResponse == Response(0, "", "")

(* ------------------------------ guards -------------------------------- *)
\* The result of a decorator: whether the wrapped view is called, the response
\* when it is not, and the checks evaluated on the way, in order.
Guard(pass, response, checks) == [pass |-> pass, resp |-> response, checks |-> checks]

\* variant: any user with an id passes
admin_only_any_user(c, nargs) ==
    IF nargs # 0 THEN Guard(FALSE, InternalServerError, <<>>)
    ELSE IF current_user(c) = None THEN Guard(FALSE, InternalServerError, <<"admin_only">>)
    ELSE Guard(TRUE, NoResponse, <<"admin_only">>)

\* admin_only's wrapper takes no parameter: Flask passes the URL's post_id by
\* keyword, so a call with one raises TypeError before the body runs.  The body
\* reads current_user.id, which the anonymous user does not have.
admin_only(c, nargs) ==
    IF nargs # 0 THEN Guard(FALSE, InternalServerError, <<>>)
    ELSE IF current_user(c) = None THEN Guard(FALSE, InternalServerError, <<"admin_only">>)
    ELSE IF current_user(c) = AdminId THEN Guard(TRUE, NoResponse, <<"admin_only">>)
    ELSE Guard(FALSE, abort(403), <<"admin_only">>)

\* variant: the decorators applied in the other order, admin_only outermost
login_required_inner_first(c, inner) ==
    IF ~inner.pass THEN inner
    ELSE IF ~is_authenticated(current_user(c))
    THEN Guard(FALSE, abort(401), inner.checks \o <<"login_required">>)
    ELSE Guard(TRUE, NoResponse, inner.checks \o <<"login_required">>)

\* login_required: with no login_view configured, unauthorized() is abort(401)
login_required(c, inner) ==
    IF ~is_authenticated(current_user(c))
    THEN Guard(FALSE, abort(401), <<"login_required">>)
    ELSE Guard(inner.pass, inner.resp, <<"login_required">> \o inner.checks)

Rejected(g) == [g.resp EXCEPT !.checks = g.checks]

(* ------------------------------- Init --------------------------------- *)
Init ==
    /\ users = {}
    /\ posts = {}
    /\ comments = {}
    /\ session = [c \in Clients |-> None]
    /\ inflight = [c \in Clients |-> <<>>]
    /\ foreign_keys \in BOOLEAN
    /\ typed = [e \in Emails |-> <<>>]
    /\ req = Request("b1", "", "")
    /\ resp = NoResponse

\* browser c has no request under way
Idle(c) == inflight[c] = <<>>

(* ------------------------------ routes -------------------------------- *)
get_all_posts(c) ==
    /\ Idle(c)
    /\ req' = Request(c, "get_all_posts", "GET")
    /\ resp' = [render_template("index.html", "") EXCEPT !.listing = Ids(posts)]
    /\ UNCHANGED <<users, posts, comments, session, inflight, foreign_keys, typed>>

register_GET(c) ==
    /\ Idle(c)
    /\ req' = Request(c, "register", "GET")
    /\ resp' = render_template("register.html", "")
    /\ UNCHANGED <<users, posts, comments, session, inflight, foreign_keys, typed>>

\* the row register adds for a form, with the salt generate_password_hash drew
new_user(email, password, salt) ==
    User(NextId(users), email, generate_password_hash(password, salt), "name")

\* POST /register, served without another request in between
register_POST(c, email, password, salt) ==
    /\ Idle(c)
    /\ req' = [Request(c, "register", "POST") EXCEPT !.email = email, !.password = password]
    /\ IF UserByEmail(email) = None
       THEN /\ users' = users \cup {new_user(email, password, salt)}
            /\ session' = login_user(c, new_user(email, password, salt).id)
            /\ typed' = [typed EXCEPT ![email] = password]
            /\ resp' = redirect("get_all_posts", "")
       ELSE /\ resp' = render_template("login.html", ErrAlreadySignedUp)
            /\ UNCHANGED <<users, session, typed>>
    /\ UNCHANGED <<posts, comments, inflight, foreign_keys>>

\* POST /register up to the lookup of the e-mail, when other requests are served
\* before its insert: a known e-mail is answered at once, an unknown one goes on
register_lookup(c, email, password) ==
    /\ Idle(c)
    /\ req' = [Request(c, "register", "POST") EXCEPT !.email = email, !.password = password]
    /\ IF UserByEmail(email) = None
       THEN /\ inflight' = [inflight EXCEPT ![c] = <<[email |-> email, password |-> password]>>]
            /\ resp' = NoResponse
       ELSE /\ inflight' = inflight
            /\ resp' = render_template("login.html", ErrAlreadySignedUp)
    /\ UNCHANGED <<users, posts, comments, session, foreign_keys, typed>>

\* POST /register from the hashing to the response: the unique e-mail column
\* rejects the INSERT of an e-mail stored since the lookup (IntegrityError),
\* and nothing catches the exception
register_insert(c, salt) ==
    /\ ~Idle(c)
    /\ LET form == inflight[c][1] IN
          /\ req' = [Request(c, "register", "POST") EXCEPT !.email = form.email,
                                                            !.password = form.password]
          /\ IF \E u \in users : u.email = form.email
             THEN /\ resp' = InternalServerError
                  /\ UNCHANGED <<users, session, typed>>
             ELSE /\ users' = users \cup {new_user(form.email, form.password, salt)}
                  /\ session' = login_user(c, new_user(form.email, form.password, salt).id)
                  /\ typed' = [typed EXCEPT ![form.email] = form.password]
                  /\ resp' = redirect("get_all_posts", "")
    /\ inflight' = [inflight EXCEPT ![c] = <<>>]
    /\ UNCHANGED <<posts, comments, foreign_keys>>

login_POST(c, email, password) ==
    /\ Idle(c)
    /\ req' = [Request(c, "login", "POST") EXCEPT !.email = email, !.password = password]
    /\ LET user == UserByEmail(email) IN
       IF user = None
       THEN /\ resp' = render_template("login.html", ErrNoSuchEmail)
            /\ session' = session
       ELSE IF check_password_hash(Row(users, user).password, password)
       THEN /\ session' = login_user(c, user)
            /\ resp' = redirect("get_all_posts", "")
       ELSE /\ resp' = render_template("login.html", ErrPassword)
            /\ session' = session
    /\ UNCHANGED <<users, posts, comments, inflight, foreign_keys, typed>>

\* GET /login reads request.args["error"]: a missing key is a 400
login_GET(c, has_error) ==
    /\ Idle(c)
    /\ req' = [Request(c, "login", "GET") EXCEPT !.valid = has_error]
    /\ resp' = IF has_error THEN render_template("login.html", ErrNeedLogin) ELSE abort(400)
    /\ UNCHANGED <<users, posts, comments, session, inflight, foreign_keys, typed>>

logout(c) ==
    /\ Idle(c)
    /\ req' = Request(c, "logout", "GET")
    /\ session' = logout_user(c)
    /\ resp' = redirect("get_all_posts", "")
    /\ UNCHANGED <<users, posts, comments, inflight, foreign_keys, typed>>

\* GET /post/<id>: a missing post has no author_id (AttributeError)
show_post_GET(c, post_id) ==
    /\ Idle(c)
    /\ req' = [Request(c, "show_post", "GET") EXCEPT !.post_id = post_id]
    /\ resp' = IF PostById(post_id) = None \/ Row(posts, post_id).author_id \notin Ids(users)
               THEN InternalServerError
               ELSE render_template("post.html", "")
    /\ UNCHANGED <<users, posts, comments, session, inflight, foreign_keys, typed>>

\* variant: author and post swapped
new_comment_swapped(c, post_id) == Comment(NextId(comments), post_id, "text", current_user(c))

\* the row show_post adds: the current user's comment on post post_id
new_comment(c, post_id) == Comment(NextId(comments), current_user(c), "text", post_id)

\* POST /post/<id>: an active user with a valid form adds a comment; with an
\* invalid form the view returns None, which Flask turns into a 500; the
\* anonymous user is sent to /login?error=...
show_post_POST(c, post_id, valid) ==
    /\ Idle(c)
    /\ req' = [Request(c, "show_post", "POST") EXCEPT !.post_id = post_id, !.valid = valid]
    /\ IF is_active(current_user(c))
       THEN IF valid
            THEN IF foreign_keys /\ PostById(post_id) = None
                 THEN /\ resp' = InternalServerError
                      /\ comments' = comments
                 ELSE /\ Cardinality(comments) < MaxComments
                      /\ comments' = comments \cup {new_comment(c, post_id)}
                      /\ resp' = redirect("get_all_posts", "")
            ELSE /\ resp' = InternalServerError
                 /\ comments' = comments
       ELSE /\ resp' = redirect("login", ErrNeedLogin)
            /\ comments' = comments
    /\ UNCHANGED <<users, posts, session, inflight, foreign_keys, typed>>

about(c) ==
    /\ Idle(c)
    /\ req' = Request(c, "about", "GET")
    /\ resp' = render_template("about.html", "")
    /\ UNCHANGED <<users, posts, comments, session, inflight, foreign_keys, typed>>

contact(c) ==
    /\ Idle(c)
    /\ req' = Request(c, "contact", "GET")
    /\ resp' = render_template("contact.html", "")
    /\ UNCHANGED <<users, posts, comments, session, inflight, foreign_keys, typed>>

\* FlaskForm.validate_on_submit(): a submitting method and a form that validates
validate_on_submit(method, valid) == method \in {"POST", "PUT", "PATCH", "DELETE"} /\ valid

\* /new-post, GET or POST, behind login_required and admin_only; valid and title
\* are the submitted form's (a GET submits none); the unique title column
\* rejects a second post of the same title (IntegrityError)
add_new_post(c, method, valid, title) ==
    /\ Idle(c)
    /\ method = "GET" => ~valid
    /\ req' = [Request(c, "add_new_post", method) EXCEPT !.valid = valid]
    /\ LET g == login_required(c, admin_only(c, 0)) IN
       IF ~g.pass
       THEN /\ resp' = Rejected(g)
            /\ posts' = posts
       ELSE IF validate_on_submit(method, valid)
       THEN IF \E p \in posts : p.title = title
            THEN /\ resp' = [InternalServerError EXCEPT !.checks = g.checks]
                 /\ posts' = posts
            ELSE /\ Cardinality(posts) < MaxPosts
                 /\ posts' = posts \cup {BlogPost(NextId(posts), current_user(c), title)}
                 /\ resp' = [redirect("get_all_posts", "") EXCEPT !.checks = g.checks]
       ELSE /\ resp' = [render_template("make-post.html", "") EXCEPT !.checks = g.checks]
            /\ posts' = posts
    /\ UNCHANGED <<users, comments, session, inflight, foreign_keys, typed>>

\* /edit-post/<id>, GET only, behind login_required and admin_only; the form of
\* a GET is not submitted, so validate_on_submit has nothing to validate
edit_post(c, post_id) ==
    /\ Idle(c)
    /\ req' = [Request(c, "edit_post", "GET") EXCEPT !.post_id = post_id]
    /\ LET g == login_required(c, admin_only(c, 1)) IN
       IF ~g.pass
       THEN /\ resp' = Rejected(g)
            /\ posts' = posts
       ELSE IF PostById(post_id) = None
       THEN /\ resp' = [InternalServerError EXCEPT !.checks = g.checks]
            /\ posts' = posts
       ELSE IF validate_on_submit("GET", FALSE)
       THEN /\ posts' = {IF p.id = post_id THEN [p EXCEPT !.title = p.title] ELSE p : p \in posts}
            /\ resp' = [redirect("show_post", "") EXCEPT !.checks = g.checks]
       ELSE /\ resp' = [render_template("make-post.html", "") EXCEPT !.checks = g.checks]
            /\ posts' = posts
    /\ UNCHANGED <<users, comments, session, inflight, foreign_keys, typed>>

\* /delete/<id>, GET only, behind login_required and admin_only; the session
\* deletes the row and empties the post_id of the comments it loaded
delete_post(c, post_id) ==
    /\ Idle(c)
    /\ req' = [Request(c, "delete_post", "GET") EXCEPT !.post_id = post_id]
    /\ LET g == login_required(c, admin_only(c, 1)) IN
       IF ~g.pass
       THEN /\ resp' = Rejected(g)
            /\ UNCHANGED <<posts, comments>>
       ELSE IF PostById(post_id) = None
       THEN /\ resp' = [InternalServerError EXCEPT !.checks = g.checks]
            /\ UNCHANGED <<posts, comments>>
       ELSE /\ posts' = {p \in posts : p.id # post_id}
            /\ comments' = {IF cm.post_id = post_id THEN [cm EXCEPT !.post_id = None] ELSE cm
                              : cm \in comments}
            /\ resp' = [redirect("get_all_posts", "") EXCEPT !.checks = g.checks]
    /\ UNCHANGED <<users, session, inflight, foreign_keys, typed>>

\* one browser's requests, each served before the next arrives
Next ==
    \E c \in {"b1"} :
        \/ get_all_posts(c)
        \/ register_GET(c)
        \/ \E email \in Emails, password \in Passwords, salt \in Salts :
               register_POST(c, email, password, salt)
        \/ \E email \in Emails, password \in Passwords : login_POST(c, email, password)
        \/ \E has_error \in BOOLEAN : login_GET(c, has_error)
        \/ logout(c)
        \/ \E post_id \in PostIds : show_post_GET(c, post_id)
        \/ \E post_id \in PostIds, valid \in BOOLEAN : show_post_POST(c, post_id, valid)
        \/ about(c)
        \/ contact(c)
        \/ \E method \in {"GET", "POST"}, valid \in BOOLEAN, title \in Titles :
               add_new_post(c, method, valid, title)
        \/ \E post_id \in PostIds : edit_post(c, post_id)
        \/ \E post_id \in PostIds : delete_post(c, post_id)

Spec == Init /\ [][Next]_vars

\* two browsers registering, the lookup and the insert of one request apart
NextRace ==
    \E c \in Clients :
        \/ \E email \in Emails, password \in Passwords : register_lookup(c, email, password)
        \/ \E salt \in Salts : register_insert(c, salt)

SpecRace == Init /\ [][NextRace]_vars

(* ------------------------------ claims -------------------------------- *)
\* the request of the step is a POST to route
Posted(route) == req'.route = route /\ req'.method = "POST"

\* the comments of a post
CommentsOf(table, post_id) == {cm \in table : cm.post_id = post_id}

\* C1: a request served while its browser's current user is anonymous or is not
\* the user with id 1 leaves the Post store as it was, whatever the route, the
\* form data and the requests before it.
C1_NonAdminLeavesPosts ==
    [][current_user(req'.client) # AdminId => posts' = posts]_vars

\* C1 happens: an authenticated user who is not the admin has asked to delete a stored post
C1_Witness ==
    /\ req.route = "delete_post"
    /\ req.post_id \in Ids(posts)
    /\ current_user(req.client) \notin {None, AdminId}

\* C2: on /new-post, /edit-post/<id> and /delete/<id> every request of a user
\* other than user 1, authenticated or anonymous, is answered 403.
C2_NonAdminForbidden ==
    (req.route \in AdminRoutes /\ current_user(req.client) # AdminId) => resp.status = 403

\* C3: no two stored users share an e-mail, and a register request for an e-mail
\* a stored user holds adds no user, keeps the current user and is answered with
\* the login page and its 'already signed up' message, never with an exception.
C3_DuplicateEmailRejected ==
    [][/\ \A u, v \in users' : u.email = v.email => u = v
       /\ (Posted("register") /\ resp'.status # 0 /\ \E u \in users : u.email = req'.email)
            => /\ users' = users
               /\ session' = session
               /\ resp' = render_template("login.html", ErrAlreadySignedUp)]_vars

\* C4: a login with the e-mail and the password of a successful registration
\* succeeds and makes that user the current user; a login with that e-mail and any
\* other password is answered 'Password Incorrect' and leaves the session as it
\* was; the stored password is the salted hash, never the password typed.
C4_PasswordRoundTrip ==
    /\ [](\A u \in users :
             /\ u.password # typed[u.email]
             /\ \E salt \in Salts : u.password = generate_password_hash(typed[u.email], salt))
    /\ [][(Posted("login") /\ typed[req'.email] # <<>>) =>
             IF req'.password = typed[req'.email]
             THEN /\ resp' = redirect("get_all_posts", "")
                  /\ session'[req'.client] = UserByEmail(req'.email)
             ELSE /\ resp' = render_template("login.html", ErrPassword)
                  /\ session' = session]_vars

\* C4 happens: a registered user's e-mail with another password was refused
C4_Witness ==
    /\ req.route = "login" /\ req.method = "POST"
    /\ typed[req.email] # <<>>
    /\ req.password # typed[req.email]
    /\ resp.error = ErrPassword

\* C5: when the admin asks /delete/<id> for a stored post, the post leaves the
\* Post store and no later listing shows it.
C5_AdminDeleteRemoves ==
    /\ (req.route = "delete_post" /\ current_user(req.client) = AdminId)
          => req.post_id \notin Ids(posts)
    /\ req.route = "get_all_posts" => resp.listing = Ids(posts)

\* C6, as claimed: every POST to /post/<id> by an authenticated user, for a stored
\* post, adds exactly one comment, by the current user on that post, and changes
\* no other row.
C6_EveryPostAddsComment ==
    [][(Posted("show_post") /\ is_authenticated(current_user(req'.client))
          /\ req'.post_id \in Ids(posts))
        => /\ \E cm \in comments' :
                 /\ cm \notin comments
                 /\ comments' = comments \cup {cm}
                 /\ cm.author_id = current_user(req'.client)
                 /\ cm.post_id = req'.post_id
           /\ Cardinality(CommentsOf(comments', req'.post_id))
                 = Cardinality(CommentsOf(comments, req'.post_id)) + 1
           /\ users' = users /\ posts' = posts]_vars

\* C6, amended: a POST to /post/<id> by an authenticated user, for a stored post
\* and with a comment form that validates, adds exactly one comment, by the
\* current user on that post; the post has one comment more and no other row changes.
C6_ValidPostAddsComment ==
    [][(Posted("show_post") /\ is_authenticated(current_user(req'.client))
          /\ req'.post_id \in Ids(posts) /\ req'.valid)
        => /\ \E cm \in comments' :
                 /\ cm \notin comments
                 /\ comments' = comments \cup {cm}
                 /\ cm.author_id = current_user(req'.client)
                 /\ cm.post_id = req'.post_id
           /\ Cardinality(CommentsOf(comments', req'.post_id))
                 = Cardinality(CommentsOf(comments, req'.post_id)) + 1
           /\ users' = users /\ posts' = posts]_vars

\* C6 happens: a user other than the post's author has commented on a stored post
C6_Witness ==
    /\ req.route = "show_post" /\ req.method = "POST" /\ req.valid
    /\ req.post_id \in Ids(posts)
    /\ resp.status = 302
    /\ \E cm \in comments : /\ cm.post_id = req.post_id
                            /\ cm.author_id = current_user(req.client)
                            /\ cm.author_id # Row(posts, req.post_id).author_id

\* C7: every comment's author_id is a stored user's id and its post_id a stored
\* post's id, and every post's author_id is a stored user's id.
C7_ReferentialIntegrity ==
    /\ \A cm \in comments : cm.author_id \in Ids(users) /\ cm.post_id \in Ids(posts)
    /\ \A p \in posts : p.author_id \in Ids(users)

\* C8: a successful login or registration makes its user the browser's current
\* user, logout makes it anonymous, and every other request (a failed login and
\* a rejected registration among them) leaves it as it was; it starts anonymous.
C8_SessionFollowsLogin ==
    [][\A c \in Clients :
          IF req'.client = c /\ (Posted("login") \/ Posted("register")) /\ resp'.status = 302
          THEN \E u \in users' : u.email = req'.email /\ session'[c] = u.id
          ELSE IF req'.client = c /\ req'.route = "logout"
          THEN session'[c] = None
          ELSE session'[c] = session[c]]_vars

\* C8 happens: a logged-in user's login as another user failed on the password
C8_Witness ==
    /\ req.route = "login" /\ req.method = "POST"
    /\ resp.error = ErrPassword
    /\ session[req.client] # None
    /\ session[req.client] # UserByEmail(req.email)

\* C9: a POST to /post/<id> by the anonymous user is answered with a redirect to
\* the login page that carries the error message, and changes no comment, user,
\* post or session.
C9_AnonymousCommentRedirected ==
    [][(Posted("show_post") /\ current_user(req'.client) = None)
        => /\ resp' = redirect("login", ErrNeedLogin)
           /\ UNCHANGED <<comments, users, posts, session>>]_vars

\* C9 happens: the anonymous user posted a valid comment form for a stored post
C9_Witness ==
    /\ req.route = "show_post" /\ req.method = "POST" /\ req.valid
    /\ req.post_id \in Ids(posts)
    /\ current_user(req.client) = None
    /\ resp.status = 302

\* C10: on the three admin routes the authentication check comes first: the
\* anonymous user is turned away by it alone, and the comparison of the id with 1
\* is evaluated only for an authenticated user, after it.
C10_AuthenticationFirst ==
    req.route \in AdminRoutes =>
        /\ resp.checks # <<>>
        /\ resp.checks[1] = "login_required"
        /\ \A i \in DOMAIN resp.checks :
              resp.checks[i] = "admin_only" => i > 1 /\ is_authenticated(current_user(req.client))
        /\ current_user(req.client) = None =>
              resp.status = 401 /\ resp.checks = <<"login_required">>

\* C10 happens: the anonymous user asked for /new-post and was answered 401
C10_Witness ==
    /\ req.route = "add_new_post"
    /\ current_user(req.client) = None
    /\ resp.status = 401
=============================================================================
